---------------------------- MODULE Spec2Model ----------------------------
(***************************************************************************)
(* A model of lbrtool (lbr.cpp): the PETSCII text codec, the LBR archive   *)
(* builder, reader, locator and the streaming mutators (delete, wipe,      *)
(* change-type, append), and the command dispatcher.                       *)
(*                                                                         *)
(* A file is a sequence of bytes (0..255).  An input stream is a record    *)
(* [pos, st, out, c]: pos is the number of bytes consumed, st is "good",   *)
(* "eof" (eofbit only) or "fail" (failbit set), out is the temporary       *)
(* output written so far, c is the caller's char variable.                 *)
(***************************************************************************)
EXTENDS Integers, Sequences, FiniteSets, TLC

VARIABLES
    file,            \* bytes of the archive on disk; NoFile when it does not exist
    prev,            \* bytes of the archive before the last operation
    last,            \* the last operation: its arguments and what it returned
    pc,              \* position of the running process
    tmp,             \* bytes of the temporary file of a running mutation
    outs,            \* files written by extract, in order
    convert_petscii  \* the static flag of lbr.cpp line 31

vars == <<file, prev, last, pc, tmp, outs, convert_petscii>>

-----------------------------------------------------------------------------
(* Bytes the code names.                                                    *)
CR == 13
SP == 32
MAX_SANE_LENGTH == 1048576
EOFByte == 255
NameBufLen == 256

Byte == 0..255

\* A char is signed on the build's platform: comparisons see -128..127.
SChar(b) == IF b > 127 THEN b - 256 ELSE b
\* Storing an int into a char keeps the low eight bits.
ToByte(n) == n % 256

RECURSIVE Cat(_)
Cat(ss) == IF ss = <<>> THEN <<>> ELSE Head(ss) \o Cat(Tail(ss))

-----------------------------------------------------------------------------
(* Text codec.                                                              *)

\* Mutant: the test against 'Z' taken as >=.
petscii2ascii_char_ZExcluded(b) ==
    LET c == SChar(b) IN
    IF c < 32 THEN 63
    ELSE IF c >= 97 /\ c <= 122 THEN ToByte(c - 32)
    ELSE IF c >= 193 /\ c <= 202 THEN ToByte(c - 128)
    ELSE IF c = 91 \/ c = 93 THEN b
    ELSE IF c >= 90 THEN 63
    ELSE b

petscii2ascii_char(b) ==
    LET c == SChar(b) IN
    IF c < 32 THEN 63
    ELSE IF c >= 97 /\ c <= 122 THEN ToByte(c - 32)
    ELSE IF c >= 193 /\ c <= 202 THEN ToByte(c - 128)
    ELSE IF c = 91 \/ c = 93 THEN b
    ELSE IF c > 90 THEN 63
    ELSE b

petscii2ascii(petscii) ==
    IF ~convert_petscii THEN petscii
    ELSE [i \in 1..Len(petscii) |-> petscii2ascii_char(petscii[i])]

ascii2petscii_char(b) ==
    LET c == SChar(b) IN
    IF c < 32 THEN 63
    ELSE IF c = 92 THEN 47
    ELSE IF c = 95 THEN 32
    ELSE IF c = 96 THEN 39
    ELSE IF c >= 97 /\ c <= 122 THEN ToByte(c - 32)
    ELSE IF c = 123 THEN 40
    ELSE IF c = 125 THEN 41
    ELSE IF c = 124 THEN 47
    ELSE IF c > 124 THEN 63
    ELSE b

ascii2petscii(ascii) ==
    IF ~convert_petscii THEN ascii
    ELSE [i \in 1..Len(ascii) |-> ascii2petscii_char(ascii[i])]

-----------------------------------------------------------------------------
(* Decimal text: std::to_string and atoi.                                   *)

IsDigit(b) == b >= 48 /\ b <= 57
IsSpace(b) == b = 32 \/ (b >= 9 /\ b <= 13)

RECURSIVE NatToString(_)
NatToString(n) ==
    IF n < 10 THEN <<48 + n>> ELSE Append(NatToString(n \div 10), 48 + (n % 10))

to_string(n) == IF n < 0 THEN <<45>> \o NatToString(-n) ELSE NatToString(n)

RECURSIVE DigitsValue(_, _)
DigitsValue(s, acc) ==
    IF s = <<>> \/ ~IsDigit(Head(s)) THEN acc
    ELSE DigitsValue(Tail(s), acc * 10 + (Head(s) - 48))

RECURSIVE SkipSpaces(_)
SkipSpaces(s) == IF s # <<>> /\ IsSpace(Head(s)) THEN SkipSpaces(Tail(s)) ELSE s

atoi(str) ==
    LET s == SkipSpaces(str) IN
    IF s = <<>> THEN 0
    ELSE IF Head(s) = 45 THEN -DigitsValue(Tail(s), 0)
    ELSE IF Head(s) = 43 THEN DigitsValue(Tail(s), 0)
    ELSE DigitsValue(s, 0)

-----------------------------------------------------------------------------
(* std::ifstream and the temporary FILE*.                                   *)

OpenIn(c0) == [pos |-> 0, st |-> "good", out |-> <<>>, c |-> c0]

Good(m) == m.st = "good"

\* fputc(b, tmpf)
Put(m, b) == [m EXCEPT !.out = Append(@, b)]
\* fputs(s, tmpf) / fwrite
PutAll(m, s) == [m EXCEPT !.out = @ \o s]

\* fputc(in.get(), tmpf): in.get() returns EOF (-1) on failure, written as 0xFF.
PutGet(d, m) ==
    IF Good(m) /\ m.pos < Len(d)
    THEN [m EXCEPT !.pos = @ + 1, !.out = Append(@, d[m.pos + 1])]
    ELSE [m EXCEPT !.st = "fail", !.out = Append(@, EOFByte)]

\* in.ignore(n): meeting the end of the file sets eofbit only.
Ignore(d, m, n) ==
    IF ~Good(m) THEN [m EXCEPT !.st = "fail"]
    ELSE IF m.pos + n <= Len(d) THEN [m EXCEPT !.pos = @ + n]
    ELSE [m EXCEPT !.pos = Len(d), !.st = "eof"]

\* in.read(buf, n): the bytes read; a short read sets eofbit and failbit.
ReadBytes(d, m, n) ==
    IF ~Good(m) THEN <<>>
    ELSE SubSeq(d, m.pos + 1, IF m.pos + n <= Len(d) THEN m.pos + n ELSE Len(d))

Read(d, m, n) ==
    IF ~Good(m) THEN [m EXCEPT !.st = "fail"]
    ELSE IF m.pos + n <= Len(d) THEN [m EXCEPT !.pos = @ + n]
    ELSE [m EXCEPT !.pos = Len(d), !.st = "fail"]

\* Number of bytes in.get(buf, 256, delim) extracts from position p.
RECURSIVE FieldLen(_, _, _, _)
FieldLen(d, p, delim, n) ==
    IF n >= NameBufLen - 1 \/ p >= Len(d) \/ d[p + 1] = delim THEN n
    ELSE FieldLen(d, p + 1, delim, n + 1)

\* in.get(buf, 256, delim): the string stored in buf.
GetStrBuf(d, m, delim) ==
    IF ~Good(m) THEN <<>>
    ELSE SubSeq(d, m.pos + 1, m.pos + FieldLen(d, m.pos, delim, 0))

\* in.get(buf, 256, delim): the stream afterwards.  Nothing extracted sets
\* failbit; meeting the end of the file sets eofbit.
GetStr(d, m, delim) ==
    IF ~Good(m) THEN [m EXCEPT !.st = "fail"]
    ELSE LET n == FieldLen(d, m.pos, delim, 0)
             q == m.pos + n
         IN [m EXCEPT !.pos = q,
                      !.st = IF n = 0 THEN "fail"
                             ELSE IF q >= Len(d) THEN "eof"
                             ELSE "good"]

\* in.tellg(): -1 unless the stream is good (the sentry fails on eofbit).
Tellg(m) == IF Good(m) THEN m.pos ELSE -1
AfterTellg(m) == IF Good(m) THEN m ELSE [m EXCEPT !.st = "fail"]

\* in.seekg(p, in.beg): clears eofbit, then seeks unless failbit is set.
Seekg(m, p) ==
    IF m.st = "fail" THEN m
    ELSE IF p < 0 THEN [m EXCEPT !.st = "fail"]
    ELSE [m EXCEPT !.pos = p, !.st = "good"]

\* The index of the first CR after position p, Len(d) + 1 when there is none.
RECURSIVE NextCR(_, _)
NextCR(d, p) == IF p >= Len(d) \/ d[p + 1] = CR THEN p + 1 ELSE NextCR(d, p + 1)

Max(a, b) == IF a >= b THEN a ELSE b

\* A loop "while (in.get(c) && test) body" whose test first fails on the byte
\* with index q: the bytes before it are read and, with copy, written; byte q
\* is read into c and not written.  When q is past the end of the file the
\* loop reads to the end and in.get(c) fails, leaving c as it was.
ReadThrough(d, m, q, copy) ==
    IF ~Good(m) THEN [m EXCEPT !.st = "fail"]
    ELSE IF q <= Len(d)
    THEN [m EXCEPT !.pos = q, !.c = d[q],
                   !.out = IF copy THEN @ \o SubSeq(d, m.pos + 1, q - 1) ELSE @]
    ELSE [m EXCEPT !.pos = Len(d), !.st = "fail",
                   !.c = IF Len(d) > m.pos THEN d[Len(d)] ELSE @,
                   !.out = IF copy THEN @ \o SubSeq(d, m.pos + 1, Len(d)) ELSE @]

\* while (in.get(c) && in.tellg() < lim) fputc(c, tmpf);
CopyBelow(d, m, lim) == ReadThrough(d, m, Max(m.pos + 1, lim), TRUE)

\* while (in.get(c) && in.tellg() <= lim) fputc(c, tmpf);
CopyUpTo(d, m, lim) == ReadThrough(d, m, Max(m.pos + 1, lim + 1), TRUE)

\* while (in.get(c) && c != 0x0D) {}
SkipField(d, m) == ReadThrough(d, m, NextCR(d, m.pos), FALSE)

\* while (in.get(c) && c != 0x0D) fputc(c, tmpf);
CopyField(d, m) == ReadThrough(d, m, NextCR(d, m.pos), TRUE)

\* while (in.get(c)) fputc(c, tmpf);
CopyRest(d, m) == ReadThrough(d, m, Len(d) + 1, TRUE)

-----------------------------------------------------------------------------
(* Archive header, shared by every reader.                                  *)

Signature == <<68, 87, 66>>     \* "DWB"

\* in.read(signature, 3) and the comparison with 'D', 'W', 'B'.
SignatureOk(d) == ReadBytes(d, OpenIn(0), 3) = Signature

\* in.ignore(1); in.get(count, 256, 0x20); in.ignore(1); in.ignore(1);
\* from just after the signature: the stream after the header.
SkipHeader(d, m) == Ignore(d, Ignore(d, GetStr(d, Ignore(d, m, 1), SP), 1), 1)

\* atoi(count) of that header.
HeaderCount(d, m) == atoi(GetStrBuf(d, Ignore(d, m, 1), SP))

\* One directory record read with in.get/in.ignore (lines 319-331, 221-231,
\* 603-613): the buffers and the stream afterwards.
ReadRecord(d, m) ==
    LET m1 == GetStr(d, m, CR)
        m2 == Ignore(d, m1, 1)
        m3 == GetStr(d, m2, CR)
        m4 == Ignore(d, Ignore(d, m3, 1), 1)
        m5 == GetStr(d, m4, SP)
    IN [doff |-> Tellg(m),
        name |-> GetStrBuf(d, m, CR),
        type |-> GetStrBuf(d, m2, CR),
        len  |-> GetStrBuf(d, m4, SP),
        m    |-> Ignore(d, Ignore(d, m5, 1), 1)]

-----------------------------------------------------------------------------
(* find_in_lbr                                                              *)

NotFoundResult == [res |-> -1, length |-> 0, offset |-> 0, diroffset |-> 0]

RECURSIVE find_loop(_, _, _, _, _, _, _)

\* Lines 331-344: the body of the for loop on the record r just read.
find_record(d, r, i, file_count, target, skip_deleted, a) ==
    LET l == atoi(r.len)
        hit == /\ ~a.found
               /\ petscii2ascii(r.name) = target
               /\ (Head(r.type \o <<0>>) # 68 \/ ~skip_deleted)
        a1 == IF hit
              THEN [a EXCEPT !.length = l, !.diroffset = r.doff, !.found = TRUE]
              ELSE a
        a2 == IF ~a1.found THEN [a1 EXCEPT !.coff = @ + l] ELSE a1
    IN IF l < 0 \/ l > MAX_SANE_LENGTH
       THEN NotFoundResult
       ELSE find_loop(d, r.m, i + 1, file_count, target, skip_deleted, a2)

\* The for loop of find_in_lbr; a is [coff, found, length, diroffset].
find_loop(d, m, i, file_count, target, skip_deleted, a) ==
    IF i >= file_count
    THEN IF a.found
         THEN [res |-> 0, length |-> a.length,
               offset |-> Tellg(m) + a.coff, diroffset |-> a.diroffset]
         ELSE NotFoundResult
    ELSE find_record(d, ReadRecord(d, m), i, file_count, target, skip_deleted, a)

find_in_lbr(d, target, skip_deleted) ==
    IF ~SignatureOk(d) THEN NotFoundResult
    ELSE LET m0 == Read(d, OpenIn(0), 3) IN
         find_loop(d, SkipHeader(d, m0), 0, HeaderCount(d, m0), target, skip_deleted,
                   [coff |-> 0, found |-> FALSE, length |-> 0, diroffset |-> 0])

-----------------------------------------------------------------------------
(* delete_lbr: the rewrite into the temporary file (lines 362-404).  d is   *)
(* what the second stream reads, f what find_in_lbr returned, c0 the        *)
(* indeterminate first value of "char c".                                   *)

\* Lines 365-368: the signature.
CopySignature(d, c0) == PutAll(Read(d, OpenIn(c0), 3), ReadBytes(d, OpenIn(c0), 3))

\* Lines 369-377: the header with the count decremented.
WipeHeader(d, m) ==
    LET m1 == PutGet(d, m)
        m2 == GetStr(d, m1, SP)
        file_count == atoi(GetStrBuf(d, m1, SP))
        m3 == PutAll(m2, to_string(file_count - 1))
    IN PutGet(d, PutGet(d, m3))

\* Lines 379-382: copy up to the target's directory record.
CopyToRecord(d, m, dir_offset) ==
    LET g == CopyBelow(d, m, dir_offset) IN Put(g, g.c)

\* Lines 384-386: wipe drops the record.
DropRecord(d, m) == SkipField(d, SkipField(d, SkipField(d, m)))

\* Mutant: the tombstone keeps the original length field.
TombstoneRecord_KeepLength(d, m) ==
    LET m1 == CopyField(d, m)
        m2 == PutAll(m1, <<CR, 68, CR>>)
    IN CopyField(d, SkipField(d, m2))

\* Lines 389-397: delete rewrites the record as a tombstone.
TombstoneRecord(d, m) ==
    LET m1 == CopyField(d, m)
        m2 == PutAll(m1, <<CR, 68, CR, SP, 48, SP, CR>>)
    IN SkipField(d, SkipField(d, m2))

\* Lines 400-404: the rest, without the target's payload.
CopyAroundPayload(d, m, offset, length) ==
    CopyRest(d, Seekg(CopyUpTo(d, m, offset), offset + length))

delete_pass(d, f, wipe, c0) ==
    LET m1 == CopySignature(d, c0)
        m2 == IF wipe THEN WipeHeader(d, m1) ELSE m1
        m3 == CopyToRecord(d, m2, f.diroffset)
        m4 == IF wipe THEN DropRecord(d, m3) ELSE TombstoneRecord(d, m3)
    IN CopyAroundPayload(d, m4, f.offset, f.length).out

\* delete_lbr with no fault: the return value and the archive afterwards.
delete_located(d, f, wipe) ==
    IF f.res # 0 THEN [res |-> f.res, data |-> d, f |-> f]
    ELSE [res |-> 0, data |-> delete_pass(d, f, wipe, 0), f |-> f]

delete_lbr(d, target, skip_deleted, wipe) ==
    delete_located(d, find_in_lbr(d, target, skip_deleted), wipe)

-----------------------------------------------------------------------------
(* chtype_lbr: the rewrite into the temporary file (lines 429-448).         *)

chtype_pass(d, f, new_type, c0) ==
    LET m1 == CopySignature(d, c0)
        m2 == CopyToRecord(d, m1, f.diroffset)
        m3 == CopyField(d, m2)
        m4 == PutAll(m3, <<CR>> \o ascii2petscii(new_type) \o <<CR>>)
    IN CopyRest(d, SkipField(d, m4)).out

chtype_located(d, f, new_type) ==
    IF f.res # 0 THEN [res |-> f.res, data |-> d, f |-> f]
    ELSE [res |-> 0, data |-> chtype_pass(d, f, new_type, 0), f |-> f]

chtype_lbr(d, target, new_type, skip_deleted) ==
    chtype_located(d, find_in_lbr(d, target, skip_deleted), new_type)

-----------------------------------------------------------------------------
(* Directory records written by build_lbr and add_lbr.  A source file is    *)
(* [name, data]: its filename and its bytes; file_size is Len(data).        *)

Dot == 46

\* name.find_last_of("."): the 1-based index of the last dot, 0 for npos.
RECURSIVE LastDot(_, _)
LastDot(name, i) ==
    IF i = 0 THEN 0 ELSE IF name[i] = Dot THEN i ELSE LastDot(name, i - 1)

ToLower(b) == IF b >= 65 /\ b <= 90 THEN b + 32 ELSE b

\* std::filesystem::path(name).extension(), lower-cased: a leading dot and
\* the names "." and ".." give no extension.
LowerExt(name) ==
    LET k == LastDot(name, Len(name)) IN
    IF k <= 1 \/ name = <<Dot, Dot>> THEN <<>>
    ELSE [i \in 1..(Len(name) - k + 1) |-> ToLower(name[k + i - 1])]

\* The name as written (lines 166-173, 522-529).
WrittenName(name, strip_extension) ==
    LET k == LastDot(name, Len(name)) IN
    IF strip_extension /\ k # 0 THEN ascii2petscii(SubSeq(name, 1, k - 1))
    ELSE ascii2petscii(name)

\* The type byte (lines 175-186, 531-542).
DerivedType(name, length) ==
    IF length = 0 THEN 68
    ELSE IF LowerExt(name) = <<Dot, 112, 114, 103>> THEN 80
    ELSE IF LowerExt(name) = <<Dot, 117, 115, 114>> THEN 85
    ELSE IF LowerExt(name) = <<Dot, 114, 101, 108>> THEN 82
    ELSE 83

\* One record: name CR type CR SP length SP CR.
WriteRecord(name, length, strip_extension) ==
    WrittenName(name, strip_extension)
        \o <<CR, DerivedType(name, length), CR, SP>> \o to_string(length) \o <<SP, CR>>

RECURSIVE WriteRecords(_, _)
WriteRecords(files, strip_extension) ==
    IF files = <<>> THEN <<>>
    ELSE WriteRecord(Head(files).name, Head(files).length, strip_extension)
             \o WriteRecords(Tail(files), strip_extension)

\* The payloads of the files with length > 0, each read in full.
RECURSIVE WritePayloads(_)
WritePayloads(files) ==
    IF files = <<>> THEN <<>>
    ELSE (IF Head(files).length = 0 THEN <<>> ELSE Head(files).data)
             \o WritePayloads(Tail(files))

\* FileEntry of a source file (lines 124-131, 485-491).
EntryOf(src) == [name |-> src.name, length |-> Len(src.data), data |-> src.data]
EntriesOf(srcs) == [i \in 1..Len(srcs) |-> EntryOf(srcs[i])]

-----------------------------------------------------------------------------
(* add_lbr                                                                  *)

\* Mutant: the count is copied as it was.
AddHeader_SameCount(d, m, k) ==
    LET m1 == PutGet(d, m)
        m2 == GetStr(d, m1, SP)
        file_count == atoi(GetStrBuf(d, m1, SP))
        m3 == PutAll(m2, to_string(file_count))
    IN PutGet(d, PutGet(d, m3))

\* Lines 477-483: the header with the count increased.
AddHeader(d, m, k) ==
    LET m1 == PutGet(d, m)
        m2 == GetStr(d, m1, SP)
        file_count == atoi(GetStrBuf(d, m1, SP))
        m3 == PutAll(m2, to_string(file_count + k))
    IN PutGet(d, PutGet(d, m3))

\* Lines 493-514: copy the directory, summing the lengths; bad is set when a
\* length is out of range (return -1).
RECURSIVE add_loop(_, _, _, _, _)
add_loop(d, m, i, file_count, offset) ==
    IF i >= file_count THEN [m |-> m, offset |-> offset, bad |-> FALSE]
    ELSE LET m1 == Put(CopyField(d, m), CR)
             m2 == Put(CopyField(d, m1), CR)
             m3 == PutGet(d, m2)
             len == GetStrBuf(d, m3, SP)
             m4 == PutAll(GetStr(d, m3, SP), len)
             m5 == PutGet(d, PutGet(d, m4))
             l == atoi(len)
         IN IF l < 0 \/ l > MAX_SANE_LENGTH
            THEN [m |-> m5, offset |-> offset + l, bad |-> TRUE]
            ELSE add_loop(d, m5, i + 1, file_count, offset + l)

\* Lines 515-565: from the end of the directory loop lp on.
add_rest(d, lp, files, strip_extension) ==
    LET m3 == PutAll(AfterTellg(lp.m), WriteRecords(files, strip_extension))
        m4 == CopyUpTo(d, m3, lp.offset + Tellg(lp.m))
        m5 == PutAll(m4, WritePayloads(files))
    IN [bad |-> lp.bad, out |-> CopyRest(d, m5).out]

\* Lines 477-514: the header and the directory, from the stream m1 just
\* after the signature.
add_dir(d, m1, k) ==
    add_loop(d, AddHeader(d, m1, k), 0, atoi(GetStrBuf(d, PutGet(d, m1), SP)), 0)

\* Lines 466-565: the temporary file, or bad.
add_pass(d, targets, strip_extension, c0) ==
    add_rest(d, add_dir(d, CopySignature(d, c0), Len(targets)),
             EntriesOf(targets), strip_extension)

add_done(d, r) == IF r.bad THEN [res |-> -1, data |-> d] ELSE [res |-> 0, data |-> r.out]

add_lbr(d, targets, strip_extension) ==
    IF ~SignatureOk(d) THEN [res |-> -1, data |-> d]
    ELSE add_done(d, add_pass(d, targets, strip_extension, 0))

-----------------------------------------------------------------------------
(* build_lbr                                                                *)

\* std::string::compare(...) < 0: bytewise, a proper prefix is smaller.
RECURSIVE StrLess(_, _)
StrLess(a, b) ==
    IF b = <<>> THEN FALSE
    ELSE IF a = <<>> THEN TRUE
    ELSE IF Head(a) # Head(b) THEN Head(a) < Head(b)
    ELSE StrLess(Tail(a), Tail(b))

num_cmp(i, j) ==
    IF Len(i.name) < Len(j.name) THEN TRUE
    ELSE IF Len(i.name) > Len(j.name) THEN FALSE
    ELSE StrLess(i.name, j.name)

\* std::sort(files.begin(), files.end(), num_cmp) by insertion: the order of
\* entries with equal names is the input order.
RECURSIVE InsertSorted(_, _)
InsertSorted(sorted, e) ==
    IF sorted = <<>> THEN <<e>>
    ELSE IF num_cmp(e, Head(sorted)) THEN <<e>> \o sorted
    ELSE <<Head(sorted)>> \o InsertSorted(Tail(sorted), e)

RECURSIVE SortFiles(_, _)
SortFiles(files, sorted) ==
    IF files = <<>> THEN sorted
    ELSE SortFiles(Tail(files), InsertSorted(sorted, Head(files)))

\* files.insert(files.begin() + k, f), k counted from 0.
InsertAt(files, k, f) == SubSeq(files, 1, k) \o <<f>> \o SubSeq(files, k + 1, Len(files))

\* Mutant: the filler is inserted one place too late.
RECURSIVE pad_fill_OnePlaceLate(_, _, _, _)
pad_fill_OnePlaceLate(files, i, cur, first) ==
    IF i < cur
    THEN pad_fill_OnePlaceLate(InsertAt(files, i - first + 1,
                           [name |-> to_string(i), length |-> 0, data |-> <<>>]),
                  i + 1, cur, first)
    ELSE [files |-> files, i |-> i]

\* Lines 146-152: while (i < cur) insert a filler named i.
RECURSIVE pad_fill(_, _, _, _)
pad_fill(files, i, cur, first) ==
    IF i < cur
    THEN pad_fill(InsertAt(files, i - first,
                           [name |-> to_string(i), length |-> 0, data |-> <<>>]),
                  i + 1, cur, first)
    ELSE [files |-> files, i |-> i]

\* Lines 143-153: for (i = first; i < last; i++).
RECURSIVE pad_loop(_, _, _, _)
pad_loop(files, i, first, lastv) ==
    IF i >= lastv THEN files
    ELSE LET cur == atoi(files[i - first + 1].name)
             r == pad_fill(files, i, cur, first)
         IN pad_loop(r.files, r.i + 1, first, lastv)

\* Lines 156-199: everything written to the output file.
WriteArchive(files, strip_extension) ==
    Signature \o <<SP>> \o to_string(Len(files)) \o <<SP, CR>>
        \o WriteRecords(files, strip_extension) \o WritePayloads(files)

\* build_lbr: the return value and, when written, the output file.
build_lbr(input, numerical_sort, numerical_padding, strip_extension) ==
    LET files == EntriesOf(input)
        sorted == IF numerical_sort THEN SortFiles(files, <<>>) ELSE files
        first == atoi(sorted[1].name)
        lastv == atoi(sorted[Len(sorted)].name)
    IN IF numerical_sort /\ numerical_padding
       THEN IF lastv <= first
            THEN [res |-> 1, written |-> FALSE, data |-> <<>>]
            ELSE [res |-> 0, written |-> TRUE,
                  data |-> WriteArchive(pad_loop(sorted, first, first, lastv),
                                        strip_extension)]
       ELSE [res |-> 0, written |-> TRUE, data |-> WriteArchive(sorted, strip_extension)]

-----------------------------------------------------------------------------
(* list_lbr: the directory as parsed (lines 590-619).                       *)

RECURSIVE list_loop(_, _, _, _, _)

\* Lines 614-618: the entry of the record r just read.
list_record(d, r, i, file_count, files) ==
    list_loop(d, r.m, i + 1, file_count,
              Append(files, [name |-> r.name, type |-> r.type,
                             length |-> atoi(r.len), doff |-> r.doff,
                             dend |-> Tellg(r.m)]))

list_loop(d, m, i, file_count, files) ==
    IF i >= file_count THEN files
    ELSE list_record(d, ReadRecord(d, m), i, file_count, files)

\* The entries list_lbr collects; doff and dend are the stream positions
\* before and after each record.
list_entries(d) ==
    LET m0 == Read(d, OpenIn(0), 3) IN
    list_loop(d, SkipHeader(d, m0), 0, HeaderCount(d, m0), <<>>)

list_lbr(d) == IF ~SignatureOk(d) THEN -1 ELSE 0

-----------------------------------------------------------------------------
(* extract_lbr.  FileEntry::bad_length is assigned only when the length is  *)
(* out of range (lines 232-238); ub[i] is what the field of entry i holds   *)
(* otherwise.  fill is what an unread part of a new[] buffer holds.         *)

\* Lines 219-242: the directory with each entry's bad_length.
RECURSIVE extract_dir(_, _, _, _, _, _)

\* Lines 232-241: the FileEntry of the record r just read.
extract_record(d, r, len, i, file_count, ub, files) ==
    extract_dir(d, r.m, i + 1, file_count, ub,
                Append(files,
                       [name |-> r.name, type |-> r.type, length |-> len,
                        bad_length |-> IF len < 0 \/ len > MAX_SANE_LENGTH
                                       THEN TRUE ELSE ub[i + 1]]))

extract_entry(d, r, i, file_count, ub, files) ==
    extract_record(d, r, atoi(r.len), i, file_count, ub, files)

extract_dir(d, m, i, file_count, ub, files) ==
    IF i >= file_count THEN [m |-> m, files |-> files]
    ELSE extract_entry(d, ReadRecord(d, m), i, file_count, ub, files)

\* Lines 277-286: the extension added to an extracted file's name.
TypeExtension(type) ==
    IF type = <<80>> THEN <<Dot, 112, 114, 103>>
    ELSE IF type = <<83>> THEN <<Dot, 115, 101, 113>>
    ELSE IF type = <<85>> THEN <<Dot, 117, 115, 114>>
    ELSE IF type = <<82>> THEN <<Dot, 114, 101, 108>>
    ELSE <<>>

\* Lines 265-272: whether the entry's decoded name is among the targets.
IsTarget(name, targets) == \E k \in 1..Len(targets) : petscii2ascii(name) = targets[k]

\* in.read(buffer, n); out.write(buffer, n): the n bytes written.
ReadInto(d, m, n, fill) ==
    LET got == ReadBytes(d, m, n) IN
    got \o [k \in 1..(n - Len(got)) |-> fill]

\* Lines 243-294: the files written, in order; each is [entry, name, data, raw].
RECURSIVE extract_loop(_, _, _, _, _, _, _, _, _)
extract_loop(d, m, files, i, targets, skip_deleted, add_extension, fill, written) ==
    IF i > Len(files) THEN written
    ELSE LET f == files[i] IN
         IF f.bad_length
         THEN Append(written,
                     [entry |-> i, name |-> f.name, raw |-> TRUE,
                      data |-> IF Good(m) THEN SubSeq(d, m.pos + 1, Len(d)) ELSE <<>>])
         ELSE IF f.length = 0
         THEN extract_loop(d, m, files, i + 1, targets, skip_deleted, add_extension,
                           fill, written)
         ELSE IF f.type = <<68>> /\ skip_deleted
         THEN extract_loop(d, Ignore(d, m, f.length), files, i + 1, targets,
                           skip_deleted, add_extension, fill, written)
         ELSE LET m1 == IF targets # <<>> /\ ~IsTarget(f.name, targets)
                        THEN Ignore(d, m, f.length) ELSE m
                  ascii_name == petscii2ascii(f.name)
                                    \o (IF add_extension THEN TypeExtension(f.type)
                                        ELSE <<>>)
              IN extract_loop(d, Read(d, m1, f.length), files, i + 1, targets,
                              skip_deleted, add_extension, fill,
                              Append(written,
                                     [entry |-> i, name |-> ascii_name, raw |-> FALSE,
                                      data |-> ReadInto(d, m1, f.length, fill)]))

\* Lines 243-294 on the directory dir just read.
extract_files(d, dir, targets, skip_deleted, add_extension, fill) ==
    [res |-> 0,
     written |-> extract_loop(d, dir.m, dir.files, 1, targets, skip_deleted,
                              add_extension, fill, <<>>)]

extract_lbr(d, targets, skip_deleted, add_extension, ub, fill) ==
    IF ~SignatureOk(d) THEN [res |-> 1, written |-> <<>>]
    ELSE LET m0 == Read(d, OpenIn(0), 3) IN
         extract_files(d, extract_dir(d, SkipHeader(d, m0), 0, HeaderCount(d, m0),
                                      ub, <<>>),
                       targets, skip_deleted, add_extension, fill)

-----------------------------------------------------------------------------
(* Inputs: the archives and files the operations are run on.                *)

MaxEntries == 3      \* entries of an initial archive
ManyEntries == 10    \* entries of the one long initial archive
MaxAppend == 2       \* files given to one append

NoFile == <<-1>>

\* An archive laid out as section 6 of the format (and lines 156-199) has it:
\* header, one record per entry, then the payloads in directory order.
ArchiveOf(es) ==
    Signature \o <<SP>> \o to_string(Len(es)) \o <<SP, CR>>
        \o Cat([i \in 1..Len(es) |->
                   es[i].name \o <<CR>> \o es[i].type \o <<CR, SP>>
                       \o to_string(Len(es[i].data)) \o <<SP, CR>>])
        \o Cat([i \in 1..Len(es) |-> es[i].data])

\* "A" (P, 2 bytes holding a CR and a space), "B" (S, 12 bytes), a tombstone
\* "A" (D, 0 bytes), and "B" marked D that still has a payload byte.
EntryPool ==
    { [name |-> <<65>>, type |-> <<80>>, data |-> <<CR, SP>>],
      [name |-> <<66>>, type |-> <<83>>, data |-> [i \in 1..12 |-> 100 + i]],
      [name |-> <<65>>, type |-> <<68>>, data |-> <<>>],
      [name |-> <<66>>, type |-> <<68>>, data |-> <<7>>] }

SeqsUpTo(S, n) == UNION { [1..k -> S] : k \in 0..n }

ManyArchive ==
    ArchiveOf([i \in 1..ManyEntries |->
                 [name |-> <<65 + (i % 3)>>, type |-> <<83>>,
                  data |-> IF i % 4 = 1 THEN <<200 + i>> ELSE <<>>]])

InitArchives ==
    { ArchiveOf(es) : es \in SeqsUpTo(EntryPool, MaxEntries) } \cup {ManyArchive}

TargetNames == { <<65>>, <<66>>, <<88>> }

\* New types given to change-type: "p", "PR" and the empty string.
NewTypes == { <<112>>, <<80, 82>>, <<>> }

\* Files given to append: "n.prg" (3 bytes) and "Z" (empty).
NewFiles ==
    { [name |-> <<110, 46, 112, 114, 103>>, data |-> <<1, CR, 3>>],
      [name |-> <<90>>, data |-> <<>>] }

-----------------------------------------------------------------------------
(* One run of a mutating command, to completion, on an archive.             *)

Idle == [op |-> "none", res |-> 0]

Init ==
    /\ file \in InitArchives
    /\ prev = file
    /\ last = Idle
    /\ pc = "idle"
    /\ tmp = <<>>
    /\ outs = <<>>
    /\ convert_petscii \in BOOLEAN

\* lbr -d NAME / lbr -w NAME (main, lines 832-835)
Delete(target, skip_deleted, wipe) ==
    LET r == delete_lbr(file, target, skip_deleted, wipe) IN
    /\ pc = "idle"
    /\ pc' = "done"
    /\ prev' = file
    /\ file' = r.data
    /\ last' = [op |-> IF wipe THEN "wipe" ELSE "delete", res |-> r.res,
                target |-> target, skip |-> skip_deleted, f |-> r.f]
    /\ UNCHANGED <<tmp, outs, convert_petscii>>

\* lbr -t NAME:TYPE (main, lines 840-841)
ChangeType(target, new_type, skip_deleted) ==
    LET r == chtype_lbr(file, target, new_type, skip_deleted) IN
    /\ pc = "idle"
    /\ pc' = "done"
    /\ prev' = file
    /\ file' = r.data
    /\ last' = [op |-> "chtype", res |-> r.res, target |-> target,
                skip |-> skip_deleted, f |-> r.f, new_type |-> new_type]
    /\ UNCHANGED <<tmp, outs, convert_petscii>>

\* lbr -a FILES (main, lines 836-837)
AppendFiles(targets, strip_extension) ==
    LET r == add_lbr(file, targets, strip_extension) IN
    /\ pc = "idle"
    /\ pc' = "done"
    /\ prev' = file
    /\ file' = r.data
    /\ last' = [op |-> "append", res |-> r.res, targets |-> targets,
                strip |-> strip_extension]
    /\ UNCHANGED <<tmp, outs, convert_petscii>>

Next ==
    \/ \E t \in TargetNames, b \in BOOLEAN, w \in BOOLEAN : Delete(t, b, w)
    \/ \E t \in TargetNames, ty \in NewTypes, b \in BOOLEAN : ChangeType(t, ty, b)
    \/ \E fs \in SeqsUpTo(NewFiles, MaxAppend), s \in BOOLEAN : AppendFiles(fs, s)

Spec == Init /\ [][Next]_vars

-----------------------------------------------------------------------------
(* What the claims speak of: the directory and the payload region of an     *)
(* archive, read back with the lister's parser.                             *)

Slice(d, a, b) == IF a < 1 \/ b > Len(d) \/ a > b THEN <<>> ELSE SubSeq(d, a, b)

RECURSIVE SumLengths(_, _)
SumLengths(es, n) == IF n <= 0 THEN 0 ELSE es[n].length + SumLengths(es, n - 1)

DeclaredCount(d) == HeaderCount(d, Read(d, OpenIn(0), 3))
HeaderEnd(d) == Tellg(SkipHeader(d, Read(d, OpenIn(0), 3)))
DirEnd(d) ==
    LET es == list_entries(d) IN IF es = <<>> THEN HeaderEnd(d) ELSE es[Len(es)].dend
RawRecord(d, e) == Slice(d, e.doff + 1, e.dend)
PayloadRegion(d) == Slice(d, DirEnd(d) + 1, Len(d))

\* The raw records of the entries other than entry k (k = 0: of all entries).
OtherRecords(d, k) ==
    LET es == list_entries(d) IN
    Cat([i \in 1..Len(es) |-> IF i = k THEN <<>> ELSE RawRecord(d, es[i])])

\* The payload region without the payload of entry k.
PayloadWithout(d, k) ==
    LET es == list_entries(d)
        pay == PayloadRegion(d)
        before == SumLengths(es, k - 1)
    IN Slice(pay, 1, before) \o Slice(pay, before + es[k].length + 1, Len(pay))

\* Header, directory and payload sizes add up, every record is
\* name CR type-byte CR SP length SP CR with the length in range.
WellFormed(d) ==
    LET es == list_entries(d) IN
    /\ SignatureOk(d)
    /\ DeclaredCount(d) = Len(es)
    /\ Slice(d, 1, HeaderEnd(d)) = Signature \o <<SP>> \o to_string(Len(es)) \o <<SP, CR>>
    /\ \A i \in 1..Len(es) :
           /\ es[i].length >= 0 /\ es[i].length <= MAX_SANE_LENGTH
           /\ Len(es[i].name) > 0 /\ Len(es[i].type) = 1
           /\ es[i].doff = IF i = 1 THEN HeaderEnd(d) ELSE es[i - 1].dend
           /\ RawRecord(d, es[i]) = es[i].name \o <<CR>> \o es[i].type \o <<CR, SP>>
                                        \o to_string(es[i].length) \o <<SP, CR>>
    /\ Len(d) = DirEnd(d) + SumLengths(es, Len(es))

\* The entry of the archive before the operation that find_in_lbr selected.
Located == CHOOSE k \in 1..Len(list_entries(prev)) : list_entries(prev)[k].doff = last.f.diroffset

Ran(op) == pc = "done" /\ last.op = op /\ last.res = 0

-----------------------------------------------------------------------------
(* C1 (as stated): after delete (keep entry) the declared count is          *)
(* unchanged, the target's record has the same name with type D and length  *)
(* 0, and the file is smaller by exactly the target's payload length.       *)
C1_DeleteShrinksByPayload ==
    (Ran("delete") /\ WellFormed(prev)) =>
        /\ DeclaredCount(file) = DeclaredCount(prev)
        /\ list_entries(file)[Located].name = list_entries(prev)[Located].name
        /\ list_entries(file)[Located].type = <<68>>
        /\ list_entries(file)[Located].length = 0
        /\ Len(prev) - Len(file) = last.f.length

(* C1 (amended): after delete (keep entry) the declared count is unchanged, *)
(* the target's record has the same name with type D and length 0, and the  *)
(* file is smaller by the target's payload length plus the number of        *)
(* decimal digits of that length minus one (the field " N " becomes " 0 "). *)
C1_DeleteKeepsEntry ==
    (Ran("delete") /\ WellFormed(prev)) =>
        /\ DeclaredCount(file) = DeclaredCount(prev)
        /\ Len(list_entries(file)) = Len(list_entries(prev))
        /\ list_entries(file)[Located].name = list_entries(prev)[Located].name
        /\ list_entries(file)[Located].type = <<68>>
        /\ list_entries(file)[Located].length = 0
        /\ list_entries(prev)[Located].length = last.f.length
        /\ Len(prev) - Len(file) = last.f.length + Len(to_string(last.f.length)) - 1

\* A delete that removed a payload whose length has two digits.
C1_Witness == Ran("delete") /\ WellFormed(prev) /\ last.f.length >= 10 /\ Located > 1

-----------------------------------------------------------------------------
(* C2: after wipe the declared count is the original count minus 1 and the  *)
(* file is smaller by exactly the size of the target's directory record     *)
(* plus the target's payload length, for every target position and count.   *)
C2_WipeShrinksByRecordAndPayload ==
    (Ran("wipe") /\ WellFormed(prev)) =>
        /\ DeclaredCount(file) = DeclaredCount(prev) - 1
        /\ Len(prev) - Len(file) =
               Len(RawRecord(prev, list_entries(prev)[Located])) + last.f.length

-----------------------------------------------------------------------------
(* C3: after delete (keep entry) and after wipe every directory record      *)
(* other than the target's and every payload byte of every other entry is   *)
(* in the output unchanged and in order; after wipe no byte of the target's *)
(* record is in the output: the directory is exactly the other records.     *)
C3_OthersUnchanged ==
    /\ (Ran("delete") /\ WellFormed(prev)) =>
           /\ OtherRecords(file, Located) = OtherRecords(prev, Located)
           /\ PayloadRegion(file) = PayloadWithout(prev, Located)
    /\ (Ran("wipe") /\ WellFormed(prev)) =>
           /\ Slice(file, HeaderEnd(file) + 1, Len(file))
                  = OtherRecords(prev, Located) \o PayloadWithout(prev, Located)

-----------------------------------------------------------------------------
(* C4: append to a well-formed archive of n entries, given k files, leaves  *)
(* a declared count of n + k, the n original records unchanged followed by  *)
(* the k new records in input order, and the original payload bytes         *)
(* unchanged followed by the payloads of the new non-empty files in order.  *)
C4_AppendExtends ==
    (Ran("append") /\ WellFormed(prev)) =>
        LET n == DeclaredCount(prev)
            k == Len(last.targets)
            es == list_entries(file)
        IN /\ DeclaredCount(file) = n + k
           /\ Len(es) = n + k
           /\ Slice(file, HeaderEnd(file) + 1, HeaderEnd(file) + DirEnd(prev) - HeaderEnd(prev))
                  = Slice(prev, HeaderEnd(prev) + 1, DirEnd(prev))
           /\ \A j \in 1..k :
                  /\ es[n + j].doff = IF n + j = 1 THEN HeaderEnd(file) ELSE es[n + j - 1].dend
                  /\ es[n + j].name = WrittenName(last.targets[j].name, last.strip)
                  /\ es[n + j].length = Len(last.targets[j].data)
                  /\ es[n + j].type = <<DerivedType(last.targets[j].name,
                                                    Len(last.targets[j].data))>>
           /\ PayloadRegion(file)
                  = PayloadRegion(prev) \o Cat([j \in 1..k |-> last.targets[j].data])

\* An append of two files, the second not empty, to an archive with payload.
C4_Witness ==
    /\ Ran("append") /\ WellFormed(prev)
    /\ DeclaredCount(prev) >= 2 /\ PayloadRegion(prev) # <<>>
    /\ Len(last.targets) = 2 /\ last.targets[1].data = <<>> /\ last.targets[2].data # <<>>

-----------------------------------------------------------------------------
(* C5: change-type, for every new type value the command accepts, leaves    *)
(* an archive of exactly the original size in which every byte outside the  *)
(* target entry's type field is unchanged.                                  *)
C5_TypeChangeKeepsSize ==
    (Ran("chtype") /\ WellFormed(prev)) =>
        LET e == list_entries(prev)[Located]
            tfirst == e.doff + Len(e.name) + 2
            tlast == e.doff + Len(e.name) + 1 + Len(e.type)
        IN /\ Len(file) = Len(prev)
           /\ \A i \in 1..Len(prev) : (i < tfirst \/ i > tlast) => file[i] = prev[i]

-----------------------------------------------------------------------------
(* The codec on its own: a text is encoded, then decoded.                   *)

MaxTextLen == 2

\* Letters, digits and the punctuation ascii2petscii treats specially.
StableAlphabet ==
    (65..90) \cup (97..122) \cup (48..57) \cup {92, 95, 96, 123, 124, 125}

InitCodec ==
    /\ file = NoFile
    /\ prev = NoFile
    /\ tmp = <<>>
    /\ outs = <<>>
    /\ pc = "text"
    /\ convert_petscii \in BOOLEAN
    /\ \E t \in SeqsUpTo(StableAlphabet, MaxTextLen) :
           last = [op |-> "codec", res |-> 0, text |-> t, enc |-> <<>>, dec |-> <<>>]

Encode ==
    /\ pc = "text"
    /\ pc' = "encoded"
    /\ last' = [last EXCEPT !.enc = ascii2petscii(last.text)]
    /\ UNCHANGED <<file, prev, tmp, outs, convert_petscii>>

Decode ==
    /\ pc = "encoded"
    /\ pc' = "decoded"
    /\ last' = [last EXCEPT !.dec = petscii2ascii(last.enc)]
    /\ UNCHANGED <<file, prev, tmp, outs, convert_petscii>>

NextCodec == Encode \/ Decode

SpecCodec == InitCodec /\ [][NextCodec]_vars

(* C7 (as stated): with text conversion enabled decode(encode(t)) = t for   *)
(* every text of letters, digits and the special-cased punctuation.         *)
C7_RoundTrip ==
    (pc = "decoded" /\ convert_petscii) => last.dec = last.text

\* What a character of the stable alphabet comes back as.
ComesBackAs(b) ==
    IF b >= 97 /\ b <= 122 THEN b - 32
    ELSE IF b = 92 \/ b = 124 THEN 47
    ELSE IF b = 95 THEN 32
    ELSE IF b = 96 THEN 39
    ELSE IF b = 123 THEN 40
    ELSE IF b = 125 THEN 41
    ELSE b

(* C7 (amended): with text conversion enabled decode(encode(t)) = t for     *)
(* every text of upper-case letters and digits; a lower-case letter comes   *)
(* back as its upper-case letter and backslash, pipe, underscore, backtick  *)
(* and the curly braces come back as '/', '/', space, apostrophe and the    *)
(* parentheses.                                                             *)
C7_RoundTripUpToFolding ==
    (pc = "decoded" /\ convert_petscii) =>
        /\ Len(last.dec) = Len(last.text)
        /\ \A i \in 1..Len(last.text) :
               /\ last.dec[i] = ComesBackAs(last.text[i])
               /\ ((last.text[i] >= 65 /\ last.text[i] <= 90) \/ IsDigit(last.text[i]))
                      => last.dec[i] = last.text[i]

\* "Za" encoded and decoded with the conversion enabled.
C7_Witness ==
    pc = "decoded" /\ convert_petscii /\ last.text = <<90, 97>> /\ last.dec = <<90, 65>>

-----------------------------------------------------------------------------
(* lbr -c: one run of build on a list of source files.                      *)

MaxSources == 3      \* source files given to one build

\* Source files "0", "5", "8", "9", "10", "12" and "b.prg".
SourcePool ==
    { [name |-> <<48>>, data |-> <<1>>],
      [name |-> <<53>>, data |-> <<>>],
      [name |-> <<56>>, data |-> <<CR, 2>>],
      [name |-> <<57>>, data |-> <<>>],
      [name |-> <<49, 48>>, data |-> <<3>>],
      [name |-> <<49, 50>>, data |-> <<4, 5, SP>>],
      [name |-> <<98, 46, 112, 114, 103>>, data |-> <<6, 7>>] }

\* Lists of source files with distinct names.
SourceLists ==
    { l \in SeqsUpTo(SourcePool, MaxSources) :
        \A i, j \in 1..Len(l) : i # j => l[i].name # l[j].name }

InitBuild ==
    /\ file = NoFile
    /\ prev = NoFile
    /\ last = Idle
    /\ pc = "idle"
    /\ tmp = <<>>
    /\ outs = <<>>
    /\ convert_petscii \in BOOLEAN

\* lbr -c [-n] [-p] [-s] ARCHIVE FILES (main, lines 828-829).  files.front()
\* of an empty list is undefined: padding is run on a list that has a file.
Build(input, numerical_sort, numerical_padding, strip_extension) ==
    LET r == build_lbr(input, numerical_sort, numerical_padding, strip_extension) IN
    /\ pc = "idle"
    /\ input # <<>> \/ ~(numerical_sort /\ numerical_padding)
    /\ pc' = "done"
    /\ prev' = file
    /\ file' = IF r.written THEN r.data ELSE file
    /\ last' = [op |-> "build", res |-> r.res, input |-> input,
                sort |-> numerical_sort, pad |-> numerical_padding,
                strip |-> strip_extension]
    /\ UNCHANGED <<tmp, outs, convert_petscii>>

NextBuild ==
    \E l \in SourceLists, n \in BOOLEAN, p \in BOOLEAN, s \in BOOLEAN : Build(l, n, p, s)

SpecBuild == InitBuild /\ [][NextBuild]_vars

\* A decimal integer without leading zeros.
IsNumeral(name) ==
    /\ name # <<>>
    /\ \A i \in 1..Len(name) : IsDigit(name[i])
    /\ (Len(name) > 1 => name[1] # 48)

Lowest(input) ==
    CHOOSE v \in {atoi(input[i].name) : i \in 1..Len(input)} :
        \A i \in 1..Len(input) : v <= atoi(input[i].name)
Highest(input) ==
    CHOOSE v \in {atoi(input[i].name) : i \in 1..Len(input)} :
        \A i \in 1..Len(input) : v >= atoi(input[i].name)

PaddedBuild ==
    /\ pc = "done" /\ last.op = "build" /\ last.sort /\ last.pad
    /\ \A i \in 1..Len(last.input) : IsNumeral(last.input[i].name)
    /\ Highest(last.input) > Lowest(last.input)

(* C6: build with numeric sort and padding, given files whose names are     *)
(* distinct decimal integers from lo to hi > lo, writes exactly hi - lo + 1 *)
(* entries named lo .. hi in ascending order; an integer that had a source  *)
(* file keeps that file's length and derived type, a missing one is a       *)
(* zero-length entry of type D.                                             *)
C6_PaddingFillsGaps ==
    PaddedBuild =>
        LET lo == Lowest(last.input)
            hi == Highest(last.input)
            es == list_entries(file)
        IN /\ last.res = 0
           /\ DeclaredCount(file) = hi - lo + 1
           /\ Len(es) = hi - lo + 1
           /\ \A i \in 1..Len(es) :
                  /\ es[i].name = to_string(lo + i - 1)
                  /\ \A j \in 1..Len(last.input) :
                         last.input[j].name = es[i].name =>
                             /\ es[i].length = Len(last.input[j].data)
                             /\ es[i].type = IF last.input[j].data = <<>>
                                              THEN <<68>> ELSE <<83>>
                  /\ (\A j \in 1..Len(last.input) : last.input[j].name # es[i].name)
                         => es[i].length = 0 /\ es[i].type = <<68>>
           /\ WellFormed(file)

\* "12", "8", "10" given in that order: five entries, "9" and "11" fillers.
C6_Witness ==
    /\ PaddedBuild
    /\ Len(last.input) = 3
    /\ last.input[1].name = <<49, 50>> /\ last.input[2].name = <<56>>
    /\ DeclaredCount(file) = 5

-----------------------------------------------------------------------------
(* lbr -e: one run of extract on an archive that may declare bad lengths.   *)

MaxDir == 3          \* directory records of an archive given to extract

\* An archive whose records declare the lengths given as text.
DeclaringArchive(es) ==
    Signature \o <<SP>> \o to_string(Len(es)) \o <<SP, CR>>
        \o Cat([i \in 1..Len(es) |->
                   es[i].name \o <<CR>> \o es[i].type \o <<CR, SP>>
                       \o es[i].len \o <<SP, CR>>])
        \o Cat([i \in 1..Len(es) |-> es[i].data])

\* "A" (P, 2 bytes), "B" (D, 1 byte), "A" (S, empty), "C" declaring 9999999
\* and "E" declaring -5.
DeclaredPool ==
    { [name |-> <<65>>, type |-> <<80>>, len |-> <<50>>, data |-> <<CR, SP>>],
      [name |-> <<66>>, type |-> <<68>>, len |-> <<49>>, data |-> <<7>>],
      [name |-> <<65>>, type |-> <<83>>, len |-> <<48>>, data |-> <<>>],
      [name |-> <<67>>, type |-> <<83>>, len |-> <<57, 57, 57, 57, 57, 57, 57>>,
       data |-> <<1, 2>>],
      [name |-> <<69>>, type |-> <<80>>, len |-> <<45, 53>>, data |-> <<3>>] }

ExtractArchives == { DeclaringArchive(es) : es \in SeqsUpTo(DeclaredPool, MaxDir) }

\* What an uninitialised buffer byte may hold.
FillBytes == { 0, 170 }

InitExtract ==
    /\ file \in ExtractArchives
    /\ prev = file
    /\ last = Idle
    /\ pc = "idle"
    /\ tmp = <<>>
    /\ outs = <<>>
    /\ convert_petscii \in BOOLEAN

\* lbr -e [-b] [-X] ARCHIVE [NAMES] (main, lines 830-831).  ub[i] is what
\* the never-initialised FileEntry::bad_length of record i holds.
Extract(targets, skip_deleted, add_extension, ub, fill) ==
    LET r == extract_lbr(file, targets, skip_deleted, add_extension, ub, fill) IN
    /\ pc = "idle"
    /\ pc' = "done"
    /\ outs' = r.written
    /\ last' = [op |-> "extract", res |-> r.res, targets |-> targets,
                skip |-> skip_deleted, ext |-> add_extension, ub |-> ub]
    /\ UNCHANGED <<file, prev, tmp, convert_petscii>>

NextExtract ==
    \E t \in {<<>>, <<<<65>>>>}, b \in BOOLEAN, x \in BOOLEAN,
       ub \in [1..DeclaredCount(file) -> BOOLEAN], fill \in FillBytes :
        Extract(t, b, x, ub, fill)

SpecExtract == InitExtract /\ [][NextExtract]_vars

BadLength(e) == e.length < 0 \/ e.length > MAX_SANE_LENGTH

\* The first record declaring a bad length, or one past the last record.
FirstBad(es) ==
    IF \E i \in 1..Len(es) : BadLength(es[i])
    THEN CHOOSE i \in 1..Len(es) :
             BadLength(es[i]) /\ \A j \in 1..(i - 1) : ~BadLength(es[j])
    ELSE Len(es) + 1

(* C8: extract takes the raw dump at the first entry whose declared length  *)
(* is negative or above 1 MiB and only there: every entry before it is      *)
(* extracted with its own payload bytes, the dump holds all bytes from the  *)
(* stream position to the end of the file, no later entry is processed.     *)
C8_DumpOnlyAtFirstBadLength ==
    (pc = "done" /\ last.op = "extract" /\ last.targets = <<>> /\ ~last.skip) =>
        LET es == list_entries(file)
            b == FirstBad(es)
            pay == PayloadRegion(file)
        IN /\ \A k \in 1..Len(outs) :
                  IF outs[k].raw
                  THEN /\ outs[k].entry = b
                       /\ outs[k].data =
                              Slice(pay, SumLengths(es, b - 1) + 1, Len(pay))
                  ELSE /\ outs[k].entry < b
                       /\ outs[k].data =
                              Slice(pay, SumLengths(es, outs[k].entry - 1) + 1,
                                    SumLengths(es, outs[k].entry))
           /\ \A i \in 1..Len(es) :
                  ((i < b /\ es[i].length > 0) \/ i = b)
                      => \E k \in 1..Len(outs) : outs[k].entry = i

\* The same with the flag of every in-range record reading as false.
C8_DumpAtFirstBadLengthWhenFlagClear ==
    (last.op = "extract" /\ \A i \in DOMAIN last.ub : ~last.ub[i])
        => C8_DumpOnlyAtFirstBadLength

-----------------------------------------------------------------------------
(* A mutating command step by step: the rewrite into the temporary file,    *)
(* during which a read of the archive may fail, then the replacement of the *)
(* archive by the temporary file; the run may be interrupted in between.    *)

MaxFaultEntries == 2     \* entries of an archive the faulty runs start from

FaultArchives ==
    { ArchiveOf(es) : es \in SeqsUpTo(EntryPool, MaxFaultEntries) }
        \cup { DeclaringArchive(es) : es \in SeqsUpTo(DeclaredPool, 1) }

\* The bytes a stream delivers before a read fails: all of them, or the
\* first cut (the signature is always read).
ReadCuts(d) == 3..Len(d)
Delivered(d, cut) == SubSeq(d, 1, cut)

InitFault ==
    /\ file \in FaultArchives
    /\ prev = file
    /\ last = Idle
    /\ pc = "idle"
    /\ tmp = <<>>
    /\ outs = <<>>
    /\ convert_petscii \in BOOLEAN

\* What a run records: the command, its return value, whether in.get failed
\* with the end of the file not reached, and where it was interrupted.
Run(op, res, cut) ==
    [op |-> op, res |-> res, readError |-> res = 0 /\ cut < Len(file),
     interrupted |-> "no"]

\* delete_lbr, lines 357-408: locate, then the pass into tmpf.
BeginDelete(target, skip_deleted, wipe, cut) ==
    LET f == find_in_lbr(file, target, skip_deleted) IN
    /\ pc = "idle"
    /\ prev' = file
    /\ last' = Run(IF wipe THEN "wipe" ELSE "delete", f.res, cut)
    /\ IF f.res # 0
       THEN pc' = "done" /\ tmp' = tmp
       ELSE pc' = "replace" /\ tmp' = delete_pass(Delivered(file, cut), f, wipe, 0)
    /\ UNCHANGED <<file, outs, convert_petscii>>

\* chtype_lbr, lines 424-452.
BeginChangeType(target, new_type, skip_deleted, cut) ==
    LET f == find_in_lbr(file, target, skip_deleted) IN
    /\ pc = "idle"
    /\ prev' = file
    /\ last' = Run("chtype", f.res, cut)
    /\ IF f.res # 0
       THEN pc' = "done" /\ tmp' = tmp
       ELSE pc' = "replace" /\ tmp' = chtype_pass(Delivered(file, cut), f, new_type, 0)
    /\ UNCHANGED <<file, outs, convert_petscii>>

\* add_lbr, lines 465-569.
BeginAppend(targets, strip_extension, cut) ==
    LET r == add_pass(Delivered(file, cut), targets, strip_extension, 0)
        res == IF ~SignatureOk(file) \/ r.bad THEN -1 ELSE 0
    IN /\ pc = "idle"
       /\ prev' = file
       /\ last' = Run("append", res, cut)
       /\ IF res # 0
          THEN pc' = "done" /\ tmp' = tmp
          ELSE pc' = "replace" /\ tmp' = r.out
       /\ UNCHANGED <<file, outs, convert_petscii>>

\* std::ofstream out(file, binary): opening truncates the archive
\* (lines 409, 453, 570).
Truncate ==
    /\ pc = "replace"
    /\ pc' = "copy"
    /\ file' = <<>>
    /\ UNCHANGED <<prev, last, tmp, outs, convert_petscii>>

\* rewind(tmpf); while ((ch = fgetc(tmpf)) != EOF) out.put(ch)
\* (lines 410-416, 454-460, 571-577).
CopyBack ==
    /\ pc = "copy"
    /\ pc' = "done"
    /\ file' = tmp
    /\ UNCHANGED <<prev, last, tmp, outs, convert_petscii>>

\* The process is killed; the temporary file goes with it.
Interrupt ==
    /\ pc \in {"replace", "copy"}
    /\ pc' = "killed"
    /\ tmp' = <<>>
    /\ last' = [last EXCEPT !.interrupted =
                    IF pc = "replace" THEN "before replace" ELSE "during replace"]
    /\ UNCHANGED <<file, prev, outs, convert_petscii>>

NextFault ==
    \/ \E t \in TargetNames, b \in BOOLEAN, w \in BOOLEAN, cut \in ReadCuts(file) :
           BeginDelete(t, b, w, cut)
    \/ \E t \in TargetNames, ty \in NewTypes, b \in BOOLEAN, cut \in ReadCuts(file) :
           BeginChangeType(t, ty, b, cut)
    \/ \E ts \in SeqsUpTo(NewFiles, 1), s \in BOOLEAN, cut \in ReadCuts(file) :
           BeginAppend(ts, s, cut)
    \/ Truncate
    \/ CopyBack
    \/ Interrupt

SpecFault == InitFault /\ [][NextFault]_vars

(* C9: in delete, wipe, change-type and append the archive is first written *)
(* only after the temporary file is complete and the source was read to its *)
(* end without a read error; when locate fails, a bad length is met, a read *)
(* fails during the rewrite pass, or the run is interrupted before the      *)
(* replace step, the archive's bytes are unchanged.                         *)
C9_OriginalKeptOnFailure ==
    (last.op # "none"
        /\ (last.res # 0 \/ last.readError \/ last.interrupted = "before replace"))
        => file = prev

\* The same without the read-error case.
C9_OriginalKeptUnlessReadError ==
    (last.op # "none" /\ ~last.readError
        /\ (last.res # 0 \/ last.interrupted = "before replace"))
        => file = prev

-----------------------------------------------------------------------------
(* main: the command line is checked, the operation runs, the process exits. *)

MaxArgs == 2         \* file arguments after the archive

\* A file that is no archive.
NotAnArchive == <<80, 75, 3, 4>>

MainFiles ==
    { NoFile, NotAnArchive }
        \cup { ArchiveOf(es) : es \in SeqsUpTo(EntryPool, 1) }
        \cup { DeclaringArchive(es) : es \in SeqsUpTo(DeclaredPool, 1) }

\* File arguments: "0" (1 byte), "5" (empty) and a path that does not exist.
ArgFiles ==
    { [exists |-> TRUE, name |-> <<48>>, data |-> <<1>>],
      [exists |-> TRUE, name |-> <<53>>, data |-> <<>>],
      [exists |-> FALSE, name |-> <<120>>, data |-> <<>>] }

Operations == { "List", "Create", "Extract", "Append", "Delete", "Wipe", "ChangeType" }

\* What getopt_long leaves: the operation, a flaw of the command line if it
\* has one, the options and the arguments (lines 704-803).
PlainArgs(op) ==
    [operation |-> op, flaw |-> "none", sort |-> FALSE, pad |-> FALSE,
     no_conversion |-> FALSE, target |-> <<65>>, files |-> <<>>]

ArgSets ==
    { [PlainArgs(op) EXCEPT !.flaw = fl] :
        op \in Operations,
        fl \in {"unknown option", "two actions", "no archive"} }
    \cup { [PlainArgs("ChangeType") EXCEPT !.flaw = "no separator"] }
    \cup { [PlainArgs(op) EXCEPT !.sort = n, !.pad = p, !.no_conversion = c,
                                 !.target = t, !.files = fs] :
             op \in Operations, n \in BOOLEAN, p \in BOOLEAN, c \in BOOLEAN,
             t \in {<<65>>, <<88>>}, fs \in SeqsUpTo(ArgFiles, MaxArgs) }

InitMain ==
    /\ file \in MainFiles
    /\ prev = file
    /\ last = Idle
    /\ pc = "idle"
    /\ tmp = <<>>
    /\ outs = <<>>
    /\ convert_petscii = TRUE

Exit(args, status, reported) ==
    [op |-> "main", args |-> args, exit |-> status, reported |-> reported]

\* Lines 704-826: what main reports before it runs the operation, "none"
\* when it goes on to run it.
Rejected(args) ==
    IF args.flaw \in {"unknown option", "no separator", "two actions", "no archive"}
    THEN "bad argument"
    ELSE IF args.operation # "Create" /\ file = NoFile
    THEN "file not found"
    ELSE IF /\ args.operation \notin {"Delete", "Wipe"}
            /\ \E i \in 1..Len(args.files) : ~args.files[i].exists
    THEN "file not found"
    ELSE IF args.operation \in {"List", "ChangeType"} /\ args.files # <<>>
    THEN "bad argument"
    ELSE "none"

\* Lines 704-826: option parsing and the checks that exit(1).
ParseArgs(args) ==
    /\ pc = "idle"
    /\ convert_petscii' = (convert_petscii /\ ~args.no_conversion)
    /\ IF Rejected(args) # "none"
       THEN pc' = "exited" /\ last' = Exit(args, 1, Rejected(args))
       ELSE pc' = "run" /\ last' = Exit(args, 0, "none")
    /\ UNCHANGED <<file, prev, tmp, outs>>

Running(op) == pc = "run" /\ last.args.operation = op

\* What find_in_lbr and add_lbr print when they return -1.
ArchiveComplaint(d) ==
    IF ~SignatureOk(d) THEN "invalid signature" ELSE "not done"

\* Lines 828-829; main falls off its end, the exit status is 0.
RunCreate ==
    LET a == last.args
        r == build_lbr(a.files, a.sort, a.pad, FALSE)
    IN /\ Running("Create")
       /\ a.files # <<>> \/ ~(a.sort /\ a.pad)
       /\ pc' = "exited"
       /\ file' = IF r.written THEN r.data ELSE file
       /\ last' = Exit(a, 0, IF r.res # 0 THEN "unable to pad" ELSE "none")
       /\ UNCHANGED <<prev, tmp, outs, convert_petscii>>

\* Lines 830-831.
RunExtract(ub, fill) ==
    LET a == last.args
        targets == [i \in 1..Len(a.files) |-> a.files[i].name]
        r == extract_lbr(file, targets, FALSE, FALSE, ub, fill)
    IN /\ Running("Extract")
       /\ pc' = "exited"
       /\ outs' = r.written
       /\ last' = Exit(a, 0, IF r.res # 0 THEN "invalid signature" ELSE "none")
       /\ UNCHANGED <<file, prev, tmp, convert_petscii>>

\* Lines 832-835.
RunDelete ==
    LET a == last.args
        r == delete_lbr(file, a.target, FALSE, a.operation = "Wipe")
    IN /\ Running("Delete") \/ Running("Wipe")
       /\ pc' = "exited"
       /\ file' = r.data
       /\ last' = Exit(a, 0, IF r.res # 0 THEN ArchiveComplaint(file) ELSE "none")
       /\ UNCHANGED <<prev, tmp, outs, convert_petscii>>

\* Lines 836-837.
RunAppend ==
    LET a == last.args
        r == add_lbr(file, a.files, FALSE)
    IN /\ Running("Append")
       /\ pc' = "exited"
       /\ file' = r.data
       /\ last' = Exit(a, 0, IF r.res # 0 THEN ArchiveComplaint(file) ELSE "none")
       /\ UNCHANGED <<prev, tmp, outs, convert_petscii>>

\* Lines 838-839.
RunList ==
    /\ Running("List")
    /\ pc' = "exited"
    /\ last' = Exit(last.args, 0,
                    IF list_lbr(file) # 0 THEN "invalid signature" ELSE "none")
    /\ UNCHANGED <<file, prev, tmp, outs, convert_petscii>>

\* Lines 840-841.
RunChangeType ==
    LET a == last.args
        r == chtype_lbr(file, a.target, <<80>>, FALSE)
    IN /\ Running("ChangeType")
       /\ pc' = "exited"
       /\ file' = r.data
       /\ last' = Exit(a, 0, IF r.res # 0 THEN ArchiveComplaint(file) ELSE "none")
       /\ UNCHANGED <<prev, tmp, outs, convert_petscii>>

NextMain ==
    \/ pc = "idle" /\ \E args \in ArgSets : ParseArgs(args)
    \/ RunCreate
    \/ Running("Extract")
           /\ \E ub \in [1..DeclaredCount(file) -> BOOLEAN], fill \in FillBytes :
                  RunExtract(ub, fill)
    \/ RunDelete
    \/ RunAppend
    \/ RunList
    \/ RunChangeType

SpecMain == InitMain /\ [][NextMain]_vars

(* C10: the exit status is 0 when the requested action succeeds and 1 when  *)
(* a failure is reported: a missing archive or input file, an invalid       *)
(* signature, a bad argument, or numeric padding that cannot be computed.   *)
C10_ExitStatusTellsFailure ==
    pc = "exited" =>
        /\ last.reported = "none" => last.exit = 0
        /\ last.reported \in {"file not found", "invalid signature", "bad argument",
                               "unable to pad"} => last.exit = 1

\* The same for the failures main itself detects.
C10_ExitStatusTellsRejection ==
    pc = "exited" =>
        /\ last.reported = "none" => last.exit = 0
        /\ last.reported \in {"file not found", "bad argument"} => last.exit = 1

-----------------------------------------------------------------------------
(* find_in_lbr on its own: one locate on an archive.                        *)

\* What build writes for a source file named ".prg" under -s: an entry
\* whose name is empty (lines 166-171), here with 2 payload bytes.
NamelessEntry == [name |-> <<>>, type |-> <<83>>, data |-> <<8, 9>>]

LocateArchives ==
    { ArchiveOf(es) : es \in SeqsUpTo(EntryPool \cup {NamelessEntry}, MaxEntries) }
        \cup {ManyArchive}

InitLocate ==
    /\ file \in LocateArchives
    /\ prev = file
    /\ last = Idle
    /\ pc = "idle"
    /\ tmp = <<>>
    /\ outs = <<>>
    /\ convert_petscii \in BOOLEAN

\* The call of find_in_lbr that opens delete_lbr and chtype_lbr
\* (lines 357, 424).
Locate(target, skip_deleted) ==
    /\ pc = "idle"
    /\ pc' = "done"
    /\ last' = [op |-> "locate", target |-> target, skip |-> skip_deleted,
                f |-> find_in_lbr(file, target, skip_deleted)]
    /\ UNCHANGED <<file, prev, tmp, outs, convert_petscii>>

NextLocate == \E t \in TargetNames, b \in BOOLEAN : Locate(t, b)

SpecLocate == InitLocate /\ [][NextLocate]_vars

\* The directory by the grammar alone: n records from position p, each
\* name CR type CR SP length SP CR, with the positions before and after.
RECURSIVE RecordsAt(_, _, _)
RecordsAt(d, p, n) ==
    IF n <= 0 THEN <<>>
    ELSE LET a == NextCR(d, p)
             b == NextCR(d, a)
             c == NextCR(d, b)
         IN <<[name |-> Slice(d, p + 1, a - 1),
               type |-> Slice(d, a + 1, b - 1),
               length |-> atoi(Slice(d, b + 1, c - 1)),
               doff |-> p, dend |-> c]>> \o RecordsAt(d, c, n - 1)

\* The header is "DWB", a space, the count, a space and a CR.
Directory(d) == RecordsAt(d, NextCR(d, 0), atoi(Slice(d, 5, NextCR(d, 0) - 2)))

Matches(e, target, skip_deleted) ==
    petscii2ascii(e.name) = target /\ ~(e.type = <<68>> /\ skip_deleted)

\* What locate is to return on the directory es.
FirstMatch(es, target, skip_deleted) ==
    IF \E i \in 1..Len(es) : Matches(es[i], target, skip_deleted)
    THEN LET k == CHOOSE i \in 1..Len(es) :
                      /\ Matches(es[i], target, skip_deleted)
                      /\ \A j \in 1..(i - 1) : ~Matches(es[j], target, skip_deleted)
         IN [res |-> 0, length |-> es[k].length, offset |-> es[Len(es)].dend
                                                    + SumLengths(es, k - 1),
             diroffset |-> es[k].doff]
    ELSE NotFoundResult

LengthsInRange(es) == \A i \in 1..Len(es) : ~BadLength(es[i])

(* C11: on an archive whose declared lengths are all in [0, 1 MiB], locate  *)
(* selects the first entry whose decoded name equals the target and that is *)
(* not (type D while skip-deleted is set), returns its declared length, the *)
(* position where its record begins and the position after the directory    *)
(* plus the lengths of the entries before it; NotFound exactly when there   *)
(* is no such entry.                                                        *)
C11_LocateFirstMatch ==
    (pc = "done" /\ last.op = "locate" /\ LengthsInRange(Directory(file))) =>
        last.f = FirstMatch(Directory(file), last.target, last.skip)

\* The same on archives in which no entry has an empty name.
C11_LocateFirstMatchWhenNamed ==
    (\A i \in 1..Len(Directory(file)) : Directory(file)[i].name # <<>>)
        => C11_LocateFirstMatch

-----------------------------------------------------------------------------
(* Commands one after another on an archive that build wrote.               *)

MaxOps == 2          \* commands run after the build
MaxBuilt == 2        \* source files given to the build

\* Source files "A.prg" (2 bytes), "B" (12 bytes) and "5" (empty).
BuiltPool ==
    { [name |-> <<65, Dot, 112, 114, 103>>, data |-> <<CR, SP>>],
      [name |-> <<66>>, data |-> [i \in 1..12 |-> 100 + i]],
      [name |-> <<53>>, data |-> <<>>] }

BuiltLists ==
    { l \in SeqsUpTo(BuiltPool, MaxBuilt) :
        \A i, j \in 1..Len(l) : i # j => l[i].name # l[j].name }

\* Names asked for after the build: "A.PRG", "A", "B" and "X".
BuiltTargets == { <<65, Dot, 80, 82, 71>>, <<65>>, <<66>>, <<88>> }

\* lbr -c [-n] [-s] has run (lines 828-829, 156-199).
InitBuilt ==
    /\ convert_petscii \in BOOLEAN
    /\ \E l \in BuiltLists, n \in BOOLEAN, st \in BOOLEAN :
           file = build_lbr(l, n, FALSE, st).data
    /\ prev = file
    /\ last = [op |-> "build", res |-> 0, n |-> 0, ok |-> TRUE, firstWiped |-> FALSE,
               typeEmptied |-> FALSE]
    /\ pc = "idle"
    /\ tmp = <<>>
    /\ outs = <<>>

\* The record of one more command: ok while every command returned 0,
\* firstWiped once a wipe has removed the record next to the header,
\* typeEmptied once a change-type has written an empty type.
Then(op, res, flag) ==
    [op |-> op, res |-> res, n |-> last.n + 1, ok |-> last.ok /\ res = 0,
     firstWiped |-> last.firstWiped \/ (op = "wipe" /\ res = 0 /\ flag),
     typeEmptied |-> last.typeEmptied \/ (op = "chtype" /\ res = 0 /\ flag)]

\* lbr -d NAME / lbr -w NAME on the archive as it is now.
ThenDelete(target, skip_deleted, wipe) ==
    /\ last.n < MaxOps
    /\ \E r \in {delete_lbr(file, target, skip_deleted, wipe)} :
           /\ file' = r.data
           /\ last' = Then(IF wipe THEN "wipe" ELSE "delete", r.res,
                           r.f.diroffset = NextCR(file, 0))
    /\ prev' = file
    /\ UNCHANGED <<pc, tmp, outs, convert_petscii>>

\* lbr -t NAME:TYPE
ThenChangeType(target, new_type, skip_deleted) ==
    /\ last.n < MaxOps
    /\ \E r \in {chtype_lbr(file, target, new_type, skip_deleted)} :
           /\ file' = r.data
           /\ last' = Then("chtype", r.res, new_type = <<>>)
    /\ prev' = file
    /\ UNCHANGED <<pc, tmp, outs, convert_petscii>>

\* lbr -a FILES
ThenAppend(targets, strip_extension) ==
    /\ last.n < MaxOps
    /\ \E r \in {add_lbr(file, targets, strip_extension)} :
           /\ file' = r.data
           /\ last' = Then("append", r.res, FALSE)
    /\ prev' = file
    /\ UNCHANGED <<pc, tmp, outs, convert_petscii>>

NextChain ==
    \/ \E t \in BuiltTargets, b \in BOOLEAN, w \in BOOLEAN : ThenDelete(t, b, w)
    \/ \E t \in BuiltTargets, ty \in NewTypes, b \in BOOLEAN : ThenChangeType(t, ty, b)
    \/ \E fs \in SeqsUpTo(NewFiles, 1), st \in BOOLEAN : ThenAppend(fs, st)

SpecChain == InitBuilt /\ [][NextChain]_vars

\* The count is a number, every record is name CR type CR SP length SP CR
\* inside the file, and header, records and declared lengths add up to the
\* size of the file.
SizesAddUp(d) ==
    LET es == Directory(d)
        h == NextCR(d, 0)
    IN /\ SignatureOk(d)
       /\ h <= Len(d)
       /\ Slice(d, 1, h) = Signature \o <<SP>> \o to_string(Len(es)) \o <<SP, CR>>
       /\ \A i \in 1..Len(es) :
              /\ es[i].dend <= Len(d)
              /\ es[i].length >= 0
              /\ Slice(d, es[i].doff + 1, es[i].dend)
                     = es[i].name \o <<CR>> \o es[i].type \o <<CR, SP>>
                           \o to_string(es[i].length) \o <<SP, CR>>
       /\ Len(d) = (IF es = <<>> THEN h ELSE es[Len(es)].dend)
                       + SumLengths(es, Len(es))

(* C12: starting from an archive written by build, after every sequence of  *)
(* successful append, delete, wipe and change-type commands the archive is  *)
(* well-formed: the declared count is the number of directory records and   *)
(* the file size is header plus records plus the declared lengths.          *)
C12_WellFormedAfterCommands == last.ok => SizesAddUp(file)

\* The same for sequences in which no wipe removed the first record and no
\* change-type wrote an empty type.
C12_WellFormedUnlessFirstWiped ==
    (last.ok /\ ~last.firstWiped /\ ~last.typeEmptied) => SizesAddUp(file)

-----------------------------------------------------------------------------
(* Extract with a list of names.                                            *)

\* The payload bytes of entry i of the directory es of d.
OwnPayload(d, es, i) ==
    Slice(d, es[Len(es)].dend + SumLengths(es, i - 1) + 1,
          es[Len(es)].dend + SumLengths(es, i))

(* C13: extract with a non-empty list of names, on a well-formed archive,   *)
(* writes a file only for entries whose decoded name is in the list, and    *)
(* each file written holds exactly that entry's own payload bytes, however  *)
(* many other entries come before it.  Stated for the runs in which the     *)
(* length flag of every record reads as false, so that the dump of the raw  *)
(* payload area plays no part.                                              *)
C13_OnlyNamedEntriesExtracted ==
    (/\ pc = "done" /\ last.op = "extract" /\ last.targets # <<>>
     /\ \A i \in DOMAIN last.ub : ~last.ub[i]
     /\ SizesAddUp(file) /\ LengthsInRange(Directory(file))) =>
        \A k \in 1..Len(outs) :
            /\ ~outs[k].raw
            /\ IsTarget(Directory(file)[outs[k].entry].name, last.targets)
            /\ outs[k].data = OwnPayload(file, Directory(file), outs[k].entry)

\* The same when every entry that has a payload is named or skipped as
\* deleted.
C13_NamedEntriesExtractedWhenAllNamed ==
    (/\ last.op = "extract"
     /\ \A i \in 1..Len(Directory(file)) :
            \/ Directory(file)[i].length = 0
            \/ Directory(file)[i].type = <<68>> /\ last.skip
            \/ IsTarget(Directory(file)[i].name, last.targets))
        => C13_OnlyNamedEntriesExtracted

=============================================================================
